---- MODULE Spec2Model ----
(***************************************************************************)
(* Conversational session subsystem of the Context7 agent.                 *)
(*                                                                         *)
(*   Context7Agent (src/src/agent.py)  - chat, clear_history,              *)
(*                                       get_conversations                 *)
(*   HistoryManager (src/history.py)   - the History Store; its code is    *)
(*                                       not part of the sources at hand,  *)
(*                                       so it is modelled from spec.md    *)
(*                                       section 4.1                       *)
(*                                                                         *)
(* One chat call is a coroutine.  Its suspension points are the awaits of  *)
(* agent.py lines 70-76; pc[t] names the await the call of task t is       *)
(* suspended in.  Spec drives the agent with one call at a time (the       *)
(* scheduling model of spec.md section 5); ConcSpec lets several tasks     *)
(* call the same agent object concurrently on one event loop.              *)
(***************************************************************************)
EXTENDS Integers, Sequences, FiniteSets, TLC

\* ---------------------------------------------------------------- bounds
MaxCalls == 2          \* chat calls issued in one behaviour
NTasks == 2            \* tasks that may call the agent

Tasks == 1..NTasks
Calls == 1..MaxCalls
SessionTask == 1       \* the single session thread of control (cli.py chat_loop)

DefaultConversation == "default"
Keys == {DefaultConversation, "conv1"}
Messages == {"What is X?", "Hello"}
Refusal == "I could not find any relevant information in the Context7 knowledge base to answer your question."
Answers == {"X is Y.", Refusal}

\* AGENT_SYSTEM_PROMPT: the three rules of engagement; the failure protocol
\* quotes the refusal phrase
AGENT_SYSTEM_PROMPT ==
    [tool_first |-> "call the search tool before answering",
     grounded_synthesis |-> "answer only from the retrieved documents",
     failure_protocol |-> Refusal]

NoRequest ==
    [system_prompt |-> [tool_first |-> "", grounded_synthesis |-> "", failure_protocol |-> ""],
     message |-> "", message_history |-> <<>>]

\* what str(e) yields for the failures a turn can meet
McpStartError == "MCP server failed to start"
RunError == "completion request failed"
StoreWriteError == "history write failed"
TurnFaults == {McpStartError, RunError}

\* the two pairing policies spec.md 4.1 leaves to the History Store
Policies == {"eager", "immediate"}

VARIABLES
    policy,            \* pairing policy of the History Store
    history,           \* HistoryManager: conversation key -> stored entries
    pending,           \* HistoryManager (eager policy): half-open turn per key
    pc,                \* per task: where its chat call is suspended
    message,           \* per task: chat argument
    conversation_id,   \* per task: chat argument
    message_history,   \* per task: local of chat, line 68
    full_response,     \* per task: local of chat, line 73
    response,          \* per task: the dictionary chat returned
    now,               \* datetime.now(), a logical clock
    call,              \* ghost, per task: number of its chat call
    nextCall,          \* ghost: number of the next chat call
    callKey,           \* ghost: conversation key each call was made on
    before,            \* ghost, per task: history when its call started
    persistedAtIssue,  \* ghost, per task: stored entries when agent.run was issued
    runs,              \* ghost, per task: agent.run requests its call issued
    done,              \* ghost: calls that returned "complete", in that order
    request,           \* ghost, per task: what agent.run was issued with
    disk,              \* HistoryManager: the durable history file
    loaded,            \* HistoryManager.load() has completed in this process
    cli,               \* Context7CLI: where run() / chat_loop() stands
    running,           \* Context7CLI.running
    user_input,        \* Context7CLI.chat_loop: the line read last
    console            \* Context7CLI: what the last handled input printed

vars == <<policy, history, pending, pc, message, conversation_id, message_history,
          full_response, response, now, call, nextCall, callKey, before,
          persistedAtIssue, runs, done, request, disk, loaded, cli, running,
          user_input, console>>

\* a step of the agent leaves the session loop alone
SessionUnchanged == UNCHANGED <<loaded, cli, running, user_input, console>>

\* ------------------------------------------------------- History Store
NoEntry == [role |-> "none", content |-> "", call |-> 0]

Entry(role, content, c) == [role |-> role, content |-> content, call |-> c]

NoPending == [k \in Keys |-> NoEntry]

EmptyHistory == [k \in {} |-> <<>>]

\* get_messages(conversation_id): the stored sequence, empty for an unknown key
get_messages(h, k) == IF k \in DOMAIN h THEN h[k] ELSE <<>>

Put(h, k, s) == [x \in (DOMAIN h) \cup {k} |-> IF x = k THEN s ELSE h[x]]

Remove(h, k) == [x \in (DOMAIN h) \ {k} |-> h[x]]

\* add_message(conversation_id, role, text): appends one half of a turn.
\* immediate: every role write is committed at once.
\* eager: the user half is held open and committed together with the
\* assistant half that follows; an assistant half with no open user half
\* cannot be paired and is refused.  flush: the mapping is written to the
\* durable file.
add_message(pol, h, p, k, role, content, c) ==
    IF pol = "immediate"
    THEN [ok |-> TRUE, flush |-> TRUE,
          history |-> Put(h, k, Append(get_messages(h, k), Entry(role, content, c))),
          pending |-> p]
    ELSE IF role = "user"
    THEN [ok |-> TRUE, flush |-> FALSE, history |-> h,
          pending |-> [p EXCEPT ![k] = Entry(role, content, c)]]
    ELSE IF p[k] = NoEntry
    THEN [ok |-> FALSE, flush |-> FALSE, history |-> h, pending |-> p]
    ELSE [ok |-> TRUE, flush |-> TRUE,
          history |-> Put(h, k, get_messages(h, k) \o <<p[k], Entry(role, content, c)>>),
          pending |-> [p EXCEPT ![k] = NoEntry]]

\* clear(conversation_id): one conversation, or all of them for None
None == "None"

clear(h, p, k) ==
    IF k = None
    THEN [history |-> EmptyHistory, pending |-> NoPending]
    ELSE [history |-> Remove(h, k), pending |-> [p EXCEPT ![k] = NoEntry]]

\* get_conversations(): a summary per known conversation
Summary(h, k) ==
    [id |-> k, last_message |-> h[k][Len(h[k])].content, message_count |-> Len(h[k])]

get_conversations(h) == {Summary(h, k) : k \in DOMAIN h}

\* The durable history file: one record per stored entry, in a structure
\* of its own (conversation key, position, entry); a file that cannot be
\* parsed is Corrupt.
Corrupt == {<<"not json", 0, NoEntry>>}

Encode(h) == UNION {{<<k, i, h[k][i]>> : i \in 1..Len(h[k])} : k \in DOMAIN h}

\* load(): the mapping read back from the file; an absent, empty or corrupt
\* file gives the empty mapping
Decode(d) ==
    IF d = Corrupt THEN EmptyHistory
    ELSE [k \in {x[1] : x \in d} |->
             [i \in 1..Cardinality({x \in d : x[1] = k}) |->
                 (CHOOSE x \in d : x[1] = k /\ x[2] = i)[3]]]

\* ------------------------------------------------------------- outcomes
NoResponse == [type |-> "none", data |-> "", timestamp |-> 0]

\* the success outcome under the discriminator "success"
Complete_AsSuccess(data, ts) == [type |-> "success", data |-> data, timestamp |-> ts]

Complete(data, ts) == [type |-> "complete", data |-> data, timestamp |-> ts]

Error(data, ts) == [type |-> "error", data |-> data, timestamp |-> ts]

\* str(result) instead of str(result.data): the text of the run result object
Str_OfResult(x) ==
    IF x = Refusal THEN "AgentRunResult(data='I could not find any relevant information in the Context7 knowledge base to answer your question.')"
    ELSE "AgentRunResult(data='X is Y.')"

\* str(result.data): the completion result of an agent without a result
\* type is already text
Str(x) == x

\* a call is over: nothing in flight for this task
Ended == {"idle", "returned", "cancelled", "raised"}

\* suspended in an await of chat
Suspended == {"entering", "awaiting", "add_user", "add_assistant"}

Quiet == \A t \in Tasks : pc[t] \in Ended

Init ==
    /\ policy \in Policies
    /\ history = EmptyHistory
    /\ pending = NoPending
    /\ pc = [t \in Tasks |-> "idle"]
    /\ message = [t \in Tasks |-> ""]
    /\ conversation_id = [t \in Tasks |-> DefaultConversation]
    /\ message_history = [t \in Tasks |-> <<>>]
    /\ full_response = [t \in Tasks |-> ""]
    /\ response = [t \in Tasks |-> NoResponse]
    /\ now = 1
    /\ call = [t \in Tasks |-> 0]
    /\ nextCall = 1
    /\ callKey = [c \in Calls |-> None]
    /\ before = [t \in Tasks |-> EmptyHistory]
    /\ persistedAtIssue = [t \in Tasks |-> <<>>]
    /\ runs = [t \in Tasks |-> 0]
    /\ done = <<>>
    /\ request = [t \in Tasks |-> NoRequest]
    /\ disk = Encode(EmptyHistory)
    /\ loaded = TRUE
    /\ cli = "prompt"
    /\ running = TRUE
    /\ user_input = ""
    /\ console = ""

\* ------------------------------------------------- Context7Agent.chat
\* The except clause of chat (lines 84-90): the failure becomes the error
\* outcome, stamped with datetime.now().
Fail(t, description) ==
    /\ pc' = [pc EXCEPT ![t] = "returned"]
    /\ response' = [response EXCEPT ![t] = Error(description, now)]
    /\ now' = now + 1

\* chat is called: line 68 runs without suspension, then the call suspends
\* in the entry of "async with self.agent.run_mcp_servers()" (line 70).
StartChat(t, m, k) ==
    /\ pc[t] \in Ended
    /\ nextCall <= MaxCalls
    /\ pc' = [pc EXCEPT ![t] = "entering"]
    /\ message' = [message EXCEPT ![t] = m]
    /\ conversation_id' = [conversation_id EXCEPT ![t] = k]
    /\ message_history' = [message_history EXCEPT ![t] = get_messages(history, k)]
    /\ full_response' = [full_response EXCEPT ![t] = ""]
    /\ response' = [response EXCEPT ![t] = NoResponse]
    /\ call' = [call EXCEPT ![t] = nextCall]
    /\ nextCall' = nextCall + 1
    /\ callKey' = [callKey EXCEPT ![nextCall] = k]
    /\ before' = [before EXCEPT ![t] = history]
    /\ persistedAtIssue' = [persistedAtIssue EXCEPT ![t] = <<>>]
    /\ runs' = [runs EXCEPT ![t] = 0]
    /\ UNCHANGED <<policy, history, pending, now, done, request, disk>>

\* the tool server is up: agent.run(message, message_history=...) is issued
\* (line 72) and the call suspends until the response arrives.
ChatEnterOk(t) ==
    /\ pc[t] = "entering"
    /\ pc' = [pc EXCEPT ![t] = "awaiting"]
    /\ runs' = [runs EXCEPT ![t] = @ + 1]
    /\ persistedAtIssue' =
           [persistedAtIssue EXCEPT ![t] = get_messages(history, conversation_id[t])]
    /\ UNCHANGED <<policy, history, pending, message, conversation_id, message_history,
                   full_response, response, now, call, nextCall, callKey, before, done>>
    /\ UNCHANGED disk
    /\ request' = [request EXCEPT ![t] =
           [system_prompt |-> AGENT_SYSTEM_PROMPT, message |-> message[t],
            message_history |-> message_history[t]]]
    /\ SessionUnchanged

\* the tool-server context raises on entry: no request is issued.
ChatEnterFail(t) ==
    /\ pc[t] = "entering"
    /\ Fail(t, McpStartError)
    /\ UNCHANGED <<policy, history, pending, message, conversation_id, message_history,
                   full_response, call, nextCall, callKey, before, persistedAtIssue,
                   runs, done>>
    /\ UNCHANGED disk
    /\ UNCHANGED request
    /\ SessionUnchanged

\* the response arrives (lines 72-73), the context is left, and the call
\* suspends in the write of the user half (line 75).
ChatRunOk(t, data) ==
    /\ pc[t] = "awaiting"
    /\ pc' = [pc EXCEPT ![t] = "add_user"]
    /\ full_response' = [full_response EXCEPT ![t] = Str(data)]
    /\ UNCHANGED <<policy, history, pending, message, conversation_id, message_history,
                   response, now, call, nextCall, callKey, before, persistedAtIssue,
                   runs, done>>
    /\ UNCHANGED disk
    /\ UNCHANGED request
    /\ SessionUnchanged

\* as ChatRunFail, with the user half persisted before the response is awaited
ChatRunFail_PersistsUser(t) ==
    /\ pc[t] = "awaiting"
    /\ LET w == add_message(policy, history, pending, conversation_id[t],
                            "user", message[t], call[t])
       IN  /\ history' = w.history
           /\ pending' = w.pending
           /\ disk' = IF w.flush THEN Encode(w.history) ELSE disk
    /\ Fail(t, RunError)
    /\ UNCHANGED <<policy, message, conversation_id, message_history, full_response,
                   call, nextCall, callKey, before, persistedAtIssue, runs, done>>
    /\ UNCHANGED request
    /\ SessionUnchanged

\* as ChatRunFail, with the failed request issued again
ChatRunFail_Retries(t) ==
    /\ pc[t] = "awaiting"
    /\ runs' = [runs EXCEPT ![t] = @ + 1]
    /\ UNCHANGED <<policy, history, pending, pc, message, conversation_id,
                   message_history, full_response, response, now, call, nextCall,
                   callKey, before, persistedAtIssue, done>>
    /\ UNCHANGED disk
    /\ UNCHANGED request
    /\ SessionUnchanged

\* agent.run (or leaving the context) raises.
ChatRunFail(t) ==
    /\ pc[t] = "awaiting"
    /\ Fail(t, RunError)
    /\ UNCHANGED <<policy, history, pending, message, conversation_id, message_history,
                   full_response, call, nextCall, callKey, before, persistedAtIssue,
                   runs, done>>
    /\ UNCHANGED disk
    /\ UNCHANGED request
    /\ SessionUnchanged

\* as ChatAddUserOk, writing under the default key whatever the call's key
ChatAddUserOk_DefaultKey(t) ==
    /\ pc[t] = "add_user"
    /\ LET w == add_message(policy, history, pending, DefaultConversation,
                            "user", message[t], call[t])
       IN  /\ w.ok
           /\ history' = w.history
           /\ pending' = w.pending
           /\ disk' = IF w.flush THEN Encode(w.history) ELSE disk
    /\ pc' = [pc EXCEPT ![t] = "add_assistant"]
    /\ UNCHANGED <<policy, message, conversation_id, message_history, full_response,
                   response, now, call, nextCall, callKey, before, persistedAtIssue,
                   runs, done>>
    /\ UNCHANGED request
    /\ SessionUnchanged

\* as ChatAddUserOk, writing the response text as the user half
ChatAddUserOk_WrongText(t) ==
    /\ pc[t] = "add_user"
    /\ LET w == add_message(policy, history, pending, conversation_id[t],
                            "user", full_response[t], call[t])
       IN  /\ w.ok
           /\ history' = w.history
           /\ pending' = w.pending
           /\ disk' = IF w.flush THEN Encode(w.history) ELSE disk
    /\ pc' = [pc EXCEPT ![t] = "add_assistant"]
    /\ UNCHANGED <<policy, message, conversation_id, message_history, full_response,
                   response, now, call, nextCall, callKey, before, persistedAtIssue,
                   runs, done>>
    /\ UNCHANGED request
    /\ SessionUnchanged

\* line 75 completes: the user half is handed to the store; the call
\* suspends in the write of the assistant half (line 76).
ChatAddUserOk(t) ==
    /\ pc[t] = "add_user"
    /\ LET w == add_message(policy, history, pending, conversation_id[t],
                            "user", message[t], call[t])
       IN  /\ w.ok
           /\ history' = w.history
           /\ pending' = w.pending
           /\ disk' = IF w.flush THEN Encode(w.history) ELSE disk
    /\ pc' = [pc EXCEPT ![t] = "add_assistant"]
    /\ UNCHANGED <<policy, message, conversation_id, message_history, full_response,
                   response, now, call, nextCall, callKey, before, persistedAtIssue,
                   runs, done>>
    /\ UNCHANGED request
    /\ SessionUnchanged

\* line 75 raises: the store refused or could not flush the write.
ChatAddUserFail(t) ==
    /\ pc[t] = "add_user"
    /\ Fail(t, StoreWriteError)
    /\ UNCHANGED <<policy, history, pending, message, conversation_id, message_history,
                   full_response, call, nextCall, callKey, before, persistedAtIssue,
                   runs, done>>
    /\ UNCHANGED disk
    /\ UNCHANGED request
    /\ SessionUnchanged

\* as ChatAddAssistantOk, with line 76 a copy of line 75 (the user half again)
ChatAddAssistantOk_UserAgain(t) ==
    /\ pc[t] = "add_assistant"
    /\ LET w == add_message(policy, history, pending, conversation_id[t],
                            "user", message[t], call[t])
       IN  /\ w.ok
           /\ history' = w.history
           /\ pending' = w.pending
           /\ disk' = IF w.flush THEN Encode(w.history) ELSE disk
    /\ pc' = [pc EXCEPT ![t] = "returned"]
    /\ response' = [response EXCEPT ![t] = Complete(full_response[t], now)]
    /\ now' = now + 1
    /\ done' = Append(done, call[t])
    /\ UNCHANGED <<policy, message, conversation_id, message_history, full_response,
                   call, nextCall, callKey, before, persistedAtIssue, runs>>
    /\ UNCHANGED request
    /\ SessionUnchanged

\* line 76 completes and chat returns the success outcome (lines 78-82).
ChatAddAssistantOk(t) ==
    /\ pc[t] = "add_assistant"
    /\ LET w == add_message(policy, history, pending, conversation_id[t],
                            "assistant", full_response[t], call[t])
       IN  /\ w.ok
           /\ history' = w.history
           /\ pending' = w.pending
           /\ disk' = IF w.flush THEN Encode(w.history) ELSE disk
    /\ pc' = [pc EXCEPT ![t] = "returned"]
    /\ response' = [response EXCEPT ![t] = Complete(full_response[t], now)]
    /\ now' = now + 1
    /\ done' = Append(done, call[t])
    /\ UNCHANGED <<policy, message, conversation_id, message_history, full_response,
                   call, nextCall, callKey, before, persistedAtIssue, runs>>
    /\ UNCHANGED request
    /\ SessionUnchanged

\* as ChatAddAssistantFail, with the write outside the try block
ChatAddAssistantFail_Escapes(t) ==
    /\ pc[t] = "add_assistant"
    /\ pc' = [pc EXCEPT ![t] = "raised"]
    /\ UNCHANGED <<policy, history, pending, message, conversation_id, message_history,
                   full_response, response, now, call, nextCall, callKey, before,
                   persistedAtIssue, runs, done>>
    /\ UNCHANGED disk
    /\ UNCHANGED request
    /\ SessionUnchanged

\* line 76 raises, after line 75 has completed.
ChatAddAssistantFail(t) ==
    /\ pc[t] = "add_assistant"
    /\ Fail(t, StoreWriteError)
    /\ UNCHANGED <<policy, history, pending, message, conversation_id, message_history,
                   full_response, call, nextCall, callKey, before, persistedAtIssue,
                   runs, done>>
    /\ UNCHANGED disk
    /\ UNCHANGED request
    /\ SessionUnchanged

\* The task running chat is cancelled (or interrupted) while suspended:
\* CancelledError and KeyboardInterrupt are no Exception, so the except
\* clause of line 84 lets them pass and chat returns nothing.
Cancel(t) ==
    /\ pc[t] \in Suspended
    /\ pc' = [pc EXCEPT ![t] = "cancelled"]
    /\ UNCHANGED <<policy, history, pending, message, conversation_id, message_history,
                   full_response, response, now, call, nextCall, callKey, before,
                   persistedAtIssue, runs, done>>
    /\ UNCHANGED disk
    /\ UNCHANGED request
    /\ SessionUnchanged

\* as ClearHistory, dropping the key argument (clear() of everything)
ClearHistory_All(k) ==
    /\ LET c == clear(history, pending, None)
       IN  /\ history' = c.history
           /\ pending' = c.pending
    /\ UNCHANGED <<policy, pc, message, conversation_id, message_history, full_response,
                   response, now, call, nextCall, callKey, before, persistedAtIssue,
                   runs, done>>
    /\ disk' = Encode(history')
    /\ UNCHANGED request
    /\ SessionUnchanged

\* -------------------------------------- Context7Agent.clear_history
\* clear_history(conversation_id) delegates to the store's clear.
ClearHistory(k) ==
    /\ LET c == clear(history, pending, k)
       IN  /\ history' = c.history
           /\ pending' = c.pending
    /\ UNCHANGED <<policy, pc, message, conversation_id, message_history, full_response,
                   response, now, call, nextCall, callKey, before, persistedAtIssue,
                   runs, done>>
    /\ disk' = Encode(history')
    /\ UNCHANGED request
    /\ SessionUnchanged

\* ------------------------------------------------ one call at a time
SessionChat ==
    /\ Quiet
    /\ \E m \in Messages, k \in Keys : StartChat(SessionTask, m, k)
    /\ SessionUnchanged

SessionClear ==
    /\ Quiet
    /\ \E k \in Keys \cup {None} : ClearHistory(k)

SessionStep ==
    \/ ChatEnterOk(SessionTask)
    \/ ChatEnterFail(SessionTask)
    \/ \E data \in Answers : ChatRunOk(SessionTask, data)
    \/ ChatRunFail(SessionTask)
    \/ ChatAddUserOk(SessionTask)
    \/ ChatAddUserFail(SessionTask)
    \/ ChatAddAssistantOk(SessionTask)
    \/ ChatAddAssistantFail(SessionTask)
    \/ Cancel(SessionTask)

Next == SessionChat \/ SessionClear \/ SessionStep

Spec == Init /\ [][Next]_vars

\* ------------------------------------------------- concurrent callers
TaskChat ==
    /\ \E t \in Tasks, m \in Messages, k \in Keys : StartChat(t, m, k)
    /\ SessionUnchanged

ConcNext ==
    \/ TaskChat
    \/ \E t \in Tasks : ChatEnterOk(t)
    \/ \E t \in Tasks : ChatEnterFail(t)
    \/ \E t \in Tasks, data \in Answers : ChatRunOk(t, data)
    \/ \E t \in Tasks : ChatRunFail(t)
    \/ \E t \in Tasks : ChatAddUserOk(t)
    \/ \E t \in Tasks : ChatAddUserFail(t)
    \/ \E t \in Tasks : ChatAddAssistantOk(t)
    \/ \E t \in Tasks : ChatAddAssistantFail(t)
    \/ \E t \in Tasks : Cancel(t)
    \/ \E k \in Keys \cup {None} : ClearHistory(k)

ConcSpec == Init /\ [][ConcNext]_vars

\* ------------------------------------------------------- Context7CLI
\* Input lines, and how each is spelled (str methods work on characters).
BlankLines == {"", "  "}
CommandLines == {"/exit", "/EXIT", "/clear", "/history", "/theme"}
UtteranceLines == {"What is X?", " /clear"}
Lines == BlankLines \cup CommandLines \cup UtteranceLines

Chars(line) ==
    CASE line = "" -> <<>>
      [] line = "  " -> <<" ", " ">>
      [] line = "/exit" -> <<"/", "e", "x", "i", "t">>
      [] line = "/EXIT" -> <<"/", "E", "X", "I", "T">>
      [] line = "/clear" -> <<"/", "c", "l", "e", "a", "r">>
      [] line = "/history" -> <<"/", "h", "i", "s", "t", "o", "r", "y">>
      [] line = "/theme" -> <<"/", "t", "h", "e", "m", "e">>
      [] line = "What is X?" -> <<"W", "h", "a", "t", " ", "i", "s", " ", "X", "?">>
      [] line = " /clear" -> <<" ", "/", "c", "l", "e", "a", "r">>

IsSpace(c) == c \in {" ", "\t", "\n"}

RECURSIVE lstrip(_)
lstrip(s) == IF s # <<>> /\ IsSpace(Head(s)) THEN lstrip(Tail(s)) ELSE s

RECURSIVE rstrip(_)
rstrip(s) ==
    IF s # <<>> /\ IsSpace(s[Len(s)]) THEN rstrip(SubSeq(s, 1, Len(s) - 1)) ELSE s

\* str.strip()
strip(s) == rstrip(lstrip(s))

\* str.startswith(prefix)
startswith(s, prefix) ==
    Len(s) >= Len(prefix) /\ SubSeq(s, 1, Len(prefix)) = prefix

RECURSIVE WordEnd(_, _)
\* the position of the last character of the word that starts at s[i]
WordEnd(s, i) == IF i < Len(s) /\ ~IsSpace(s[i + 1]) THEN WordEnd(s, i + 1) ELSE i

RECURSIVE split(_)
\* str.split(): the words between runs of whitespace
split(s) ==
    LET t == lstrip(s)
    IN  IF t = <<>> THEN <<>>
        ELSE <<SubSeq(t, 1, WordEnd(t, 1))>>
                 \o split(SubSeq(t, WordEnd(t, 1) + 1, Len(t)))

LowerChar(c) ==
    CASE c = "E" -> "e" [] c = "X" -> "x" [] c = "I" -> "i" [] c = "T" -> "t"
      [] c = "W" -> "w" [] OTHER -> c

\* str.lower()
lower(s) == [i \in 1..Len(s) |-> LowerChar(s[i])]

\* the test of line 53 without strip(): "if not user_input: continue"
IsBlank_NotStripped(line) == Chars(line) = <<>>

\* chat_loop line 53: "if not user_input.strip(): continue"
IsBlank(line) == strip(Chars(line)) = <<>>

\* chat_loop line 56: user_input.startswith("/")
IsCommand(line) == startswith(Chars(line), <<"/">>)

\* handle_command lines 70-71: parts[0].lower() of the stripped, split line
Cmd(line) == lower(split(strip(Chars(line)))[1])

\* chat_loop lines 53-59 and handle_command lines 73-97: the branch taken
\* for each input line
Dispatch ==
    [line \in Lines |->
        IF IsBlank(line) THEN "skip"
        ELSE IF ~IsCommand(line) THEN "message"
        ELSE IF Cmd(line) = Chars("/exit") THEN "exit"
        ELSE IF Cmd(line) = Chars("/clear") THEN "clear"
        ELSE IF Cmd(line) = Chars("/history") THEN "history"
        ELSE "unknown"]

\* Context7CLI.current_conversation, set once in __init__
current_conversation == DefaultConversation

\* process_message lines 111-120: what is shown for an outcome
process_message_branch(resp) ==
    IF resp.type = "complete" THEN "markdown"
    ELSE IF resp.type = "error" THEN "error panel"
    ELSE "nothing"

\* the history file a process may find: absent or empty, unreadable, or
\* written by an earlier run
EarlierHistory ==
    [k \in Keys |-> <<Entry("user", "Hello", 0), Entry("assistant", "X is Y.", 0)>>]

InitialDisks == {Encode(EmptyHistory), Corrupt, Encode(EarlierHistory)}

\* what the process holds in memory when it starts
FreshMemory ==
    /\ history' = EmptyHistory
    /\ pending' = NoPending
    /\ pc' = [t \in Tasks |-> "idle"]
    /\ message' = [t \in Tasks |-> ""]
    /\ conversation_id' = [t \in Tasks |-> DefaultConversation]
    /\ message_history' = [t \in Tasks |-> <<>>]
    /\ full_response' = [t \in Tasks |-> ""]
    /\ response' = [t \in Tasks |-> NoResponse]
    /\ before' = [t \in Tasks |-> EmptyHistory]
    /\ persistedAtIssue' = [t \in Tasks |-> <<>>]
    /\ runs' = [t \in Tasks |-> 0]
    /\ request' = [t \in Tasks |-> NoRequest]
    /\ call' = [t \in Tasks |-> 0]

CliInit ==
    /\ policy \in Policies
    /\ history = EmptyHistory
    /\ pending = NoPending
    /\ pc = [t \in Tasks |-> "idle"]
    /\ message = [t \in Tasks |-> ""]
    /\ conversation_id = [t \in Tasks |-> DefaultConversation]
    /\ message_history = [t \in Tasks |-> <<>>]
    /\ full_response = [t \in Tasks |-> ""]
    /\ response = [t \in Tasks |-> NoResponse]
    /\ now = 1
    /\ call = [t \in Tasks |-> 0]
    /\ nextCall = 1
    /\ callKey = [c \in Calls |-> None]
    /\ before = [t \in Tasks |-> EmptyHistory]
    /\ persistedAtIssue = [t \in Tasks |-> <<>>]
    /\ runs = [t \in Tasks |-> 0]
    /\ done = <<>>
    /\ request = [t \in Tasks |-> NoRequest]
    /\ disk \in InitialDisks
    /\ loaded = FALSE
    /\ cli = "start"
    /\ running = TRUE
    /\ user_input = ""
    /\ console = ""

AgentUnchanged ==
    UNCHANGED <<policy, history, pending, pc, message, conversation_id,
                message_history, full_response, response, now, call, nextCall,
                callKey, before, persistedAtIssue, runs, done, request, disk>>

\* initialize() that returns without having read the history file
CliInitializeOk_SkipsLoad ==
    /\ cli = "start"
    /\ loaded' = TRUE
    /\ cli' = "prompt"
    /\ console' = "banner"
    /\ UNCHANGED <<policy, history, pending, pc, message, conversation_id,
                   message_history, full_response, response, now, call, nextCall,
                   callKey, before, persistedAtIssue, runs, done, request, disk,
                   running, user_input>>

\* run() line 127: agent.initialize() loads the history, the banner is
\* printed, and chat_loop starts prompting.
CliInitializeOk ==
    /\ cli = "start"
    /\ history' = Decode(disk)
    /\ loaded' = TRUE
    /\ cli' = "prompt"
    /\ console' = "banner"
    /\ UNCHANGED <<policy, pending, pc, message, conversation_id, message_history,
                   full_response, response, now, call, nextCall, callKey, before,
                   persistedAtIssue, runs, done, request, disk, running, user_input>>

\* run() that reports the failure of initialize() and enters chat_loop all
\* the same
CliInitializeFail_Continues ==
    /\ cli = "start"
    /\ \E l \in BOOLEAN :
           /\ loaded' = l
           /\ history' = IF l THEN Decode(disk) ELSE history
    /\ cli' = "prompt"
    /\ console' = "fatal error"
    /\ UNCHANGED <<policy, pending, pc, message, conversation_id, message_history,
                   full_response, response, now, call, nextCall, callKey, before,
                   persistedAtIssue, runs, done, request, disk, running, user_input>>

\* initialize() raises (before or after the load): run() prints the fatal
\* error and exits, chat_loop is never entered (lines 129-131).
CliInitializeFail ==
    /\ cli = "start"
    /\ \E l \in BOOLEAN :
           /\ loaded' = l
           /\ history' = IF l THEN Decode(disk) ELSE history
    /\ cli' = "fatal"
    /\ console' = "fatal error"
    /\ UNCHANGED <<policy, pending, pc, message, conversation_id, message_history,
                   full_response, response, now, call, nextCall, callKey, before,
                   persistedAtIssue, runs, done, request, disk, running, user_input>>

\* a line is read at the prompt (lines 49-51)
Prompted(line) ==
    /\ cli = "prompt"
    /\ running
    /\ user_input' = line

\* lines 53-54: an empty or whitespace line is skipped
CliBlank(line) ==
    /\ Prompted(line)
    /\ Dispatch[line] = "skip"
    /\ AgentUnchanged
    /\ UNCHANGED <<loaded, cli, running, console>>

\* /exit that prints the farewell without clearing running: the while
\* loop goes on
CliExit_KeepsRunning(line) ==
    /\ Prompted(line)
    /\ Dispatch[line] = "exit"
    /\ console' = "goodbye"
    /\ AgentUnchanged
    /\ UNCHANGED <<loaded, cli, running>>

\* /exit (lines 73-75): running is cleared and the while loop ends
CliExit(line) ==
    /\ Prompted(line)
    /\ Dispatch[line] = "exit"
    /\ running' = FALSE
    /\ cli' = "stopped"
    /\ console' = "goodbye"
    /\ AgentUnchanged
    /\ UNCHANGED loaded

\* /clear calling clear_history() without the conversation key
CliClearOk_All(line) ==
    /\ Prompted(line)
    /\ Dispatch[line] = "clear"
    /\ LET c == clear(history, pending, None)
       IN  /\ history' = c.history
           /\ pending' = c.pending
           /\ disk' = Encode(c.history)
    /\ console' = "cleared"
    /\ UNCHANGED <<policy, pc, message, conversation_id, message_history, full_response,
                   response, now, call, nextCall, callKey, before, persistedAtIssue,
                   runs, done, request, loaded, cli, running>>

\* /clear (lines 76-78): the current conversation is cleared and reported
CliClearOk(line) ==
    /\ Prompted(line)
    /\ Dispatch[line] = "clear"
    /\ LET c == clear(history, pending, current_conversation)
       IN  /\ history' = c.history
           /\ pending' = c.pending
           /\ disk' = Encode(c.history)
    /\ console' = "cleared"
    /\ UNCHANGED <<policy, pc, message, conversation_id, message_history, full_response,
                   response, now, call, nextCall, callKey, before, persistedAtIssue,
                   runs, done, request, loaded, cli, running>>

\* /clear with the failure of clear_history caught and dropped around
\* line 77, so that line 78 runs
CliClearFail_ReportsCleared(line) ==
    /\ Prompted(line)
    /\ Dispatch[line] = "clear"
    /\ console' = "cleared"
    /\ AgentUnchanged
    /\ UNCHANGED <<loaded, cli, running>>

\* /clear when the store cannot write: clear_history raises at line 77,
\* line 78 is skipped and chat_loop reports the error (lines 65-66)
CliClearFail(line) ==
    /\ Prompted(line)
    /\ Dispatch[line] = "clear"
    /\ console' = "unexpected error"
    /\ AgentUnchanged
    /\ UNCHANGED <<loaded, cli, running>>

\* /history (lines 79-95): the table of conversations, or a note
CliHistory(line) ==
    /\ Prompted(line)
    /\ Dispatch[line] = "history"
    /\ console' = IF get_conversations(history) # {} THEN "table"
                  ELSE "no conversation history"
    /\ AgentUnchanged
    /\ UNCHANGED <<loaded, cli, running>>

\* any other command (lines 96-97)
CliUnknown(line) ==
    /\ Prompted(line)
    /\ Dispatch[line] = "unknown"
    /\ console' = "unknown command"
    /\ AgentUnchanged
    /\ UNCHANGED <<loaded, cli, running>>

\* process_message that starts chat as a background task instead of
\* awaiting it: the loop prompts again at once
CliMessage_NotAwaited(line) ==
    /\ Prompted(line)
    /\ Dispatch[line] = "message"
    /\ StartChat(SessionTask, line, current_conversation)
    /\ console' = "thinking"
    /\ UNCHANGED <<loaded, cli, running>>

\* an utterance (line 59): process_message calls chat and awaits it
CliMessage(line) ==
    /\ Prompted(line)
    /\ Dispatch[line] = "message"
    /\ StartChat(SessionTask, line, current_conversation)
    /\ cli' = "chatting"
    /\ console' = "thinking"
    /\ UNCHANGED <<loaded, running>>

\* the awaited chat call proceeds
CliChatStep ==
    /\ cli = "chatting"
    /\ SessionStep

\* process_message that gives up the session when the outcome is an error
CliDisplay_StopsOnError ==
    /\ cli = "chatting"
    /\ pc[SessionTask] = "returned"
    /\ console' = process_message_branch(response[SessionTask])
    /\ cli' = IF response[SessionTask].type = "error" THEN "stopped" ELSE "prompt"
    /\ running' = (response[SessionTask].type # "error")
    /\ AgentUnchanged
    /\ UNCHANGED <<loaded, user_input>>

\* chat has returned: process_message shows the outcome (lines 109-122)
\* and returns, chat_loop prompts again; the locals of the call and the
\* response variable of process_message end with their frames
CliDisplay ==
    /\ cli = "chatting"
    /\ pc[SessionTask] = "returned"
    /\ console' = process_message_branch(response[SessionTask])
    /\ cli' = "prompt"
    /\ pc' = [pc EXCEPT ![SessionTask] = "idle"]
    /\ message' = [message EXCEPT ![SessionTask] = ""]
    /\ message_history' = [message_history EXCEPT ![SessionTask] = <<>>]
    /\ full_response' = [full_response EXCEPT ![SessionTask] = ""]
    /\ response' = [response EXCEPT ![SessionTask] = NoResponse]
    /\ before' = [before EXCEPT ![SessionTask] = EmptyHistory]
    /\ persistedAtIssue' = [persistedAtIssue EXCEPT ![SessionTask] = <<>>]
    /\ runs' = [runs EXCEPT ![SessionTask] = 0]
    /\ request' = [request EXCEPT ![SessionTask] = NoRequest]
    /\ UNCHANGED <<policy, history, pending, conversation_id, now, call, nextCall,
                   callKey, done, disk>>
    /\ UNCHANGED <<loaded, running, user_input>>

\* the interruption that cancelled the chat call ends the loop (lines 61-64)
CliInterrupted ==
    /\ cli = "chatting"
    /\ pc[SessionTask] = "cancelled"
    /\ running' = FALSE
    /\ cli' = "stopped"
    /\ console' = "shutting down"
    /\ AgentUnchanged
    /\ UNCHANGED <<loaded, user_input>>

\* KeyboardInterrupt or end of input at the prompt (lines 61-64)
CliPromptInterrupt ==
    /\ cli = "prompt"
    /\ running
    /\ running' = FALSE
    /\ cli' = "stopped"
    /\ console' = "shutting down"
    /\ AgentUnchanged
    /\ UNCHANGED <<loaded, user_input>>

\* the program is started again: a new process with the same history file
Relaunch ==
    /\ cli \in {"stopped", "fatal"}
    /\ FreshMemory
    /\ loaded' = FALSE
    /\ cli' = "start"
    /\ running' = TRUE
    /\ user_input' = ""
    /\ console' = ""
    /\ UNCHANGED <<policy, now, nextCall, callKey, done, disk>>

CliNext ==
    \/ CliInitializeOk
    \/ CliInitializeFail
    \/ \E line \in Lines : CliBlank(line)
    \/ \E line \in Lines : CliExit(line)
    \/ \E line \in Lines : CliClearOk(line)
    \/ \E line \in Lines : CliClearFail(line)
    \/ \E line \in Lines : CliHistory(line)
    \/ \E line \in Lines : CliUnknown(line)
    \/ \E line \in Lines : CliMessage(line)
    \/ CliChatStep
    \/ CliDisplay
    \/ CliInterrupted
    \/ CliPromptInterrupt
    \/ Relaunch

CliSpec == CliInit /\ [][CliNext]_vars

\* the event loop resumes process_message once the awaited chat call has
\* returned
CliFairSpec == CliSpec /\ WF_vars(CliDisplay)

\* --------------------------------------------------------- properties
RECURSIVE TurnsOf(_)
\* the turns a reader reconstructs from stored entries: a user entry and the
\* assistant entry right after it; an entry without its partner is no turn
TurnsOf(s) ==
    IF Len(s) < 2 THEN <<>>
    ELSE IF s[1].role = "user" /\ s[2].role = "assistant"
    THEN <<[user |-> s[1].content, assistant |-> s[2].content, call |-> s[2].call]>>
             \o TurnsOf(SubSeq(s, 3, Len(s)))
    ELSE TurnsOf(Tail(s))

\* the step in which the chat call of task t returns an outcome of this type
Returns(t, type) ==
    /\ pc[t] \in Suspended
    /\ pc'[t] = "returned"
    /\ response'[t].type = type

\* in the completion order d, c1 returned "complete" before c2 did
CompletedBefore(d, c1, c2) ==
    \E i, j \in 1..Len(d) : i < j /\ d[i] = c1 /\ d[j] = c2

\* C1: when the tool-server context or agent.run raises, get_messages of the
\* call's conversation is after the call what it was before the call.
C1_NoPartialCommit ==
    [][\A t \in Tasks :
          (Returns(t, "error") /\ response'[t].data \in TurnFaults)
              => get_messages(history', conversation_id[t])
                     = get_messages(before[t], conversation_id[t])]_vars

\* a request failed on a conversation that holds earlier turns
C1_Witness ==
    \E t \in Tasks :
        /\ pc[t] = "returned"
        /\ response[t].data = RunError
        /\ TurnsOf(get_messages(history, conversation_id[t])) # <<>>
        /\ history = before[t]

\* C2: a chat call that returns the error outcome, whatever failed, leaves
\* the stored messages of every conversation as they were before the call.
C2_FailedTurnNeverWrites ==
    [][\A t \in Tasks : Returns(t, "error") => history' = before[t]]_vars

\* C3: every stored entry, every half-open turn and every entry read by a
\* chat call belongs to a call made on that very conversation key.
C3_Isolation ==
    /\ \A k \in DOMAIN history : \A i \in 1..Len(history[k]) :
           callKey[history[k][i].call] = k
    /\ \A k \in Keys : pending[k] # NoEntry => callKey[pending[k].call] = k
    /\ \A t \in Tasks : \A i \in 1..Len(message_history[t]) :
           callKey[message_history[t][i].call] = conversation_id[t]

\* two conversations hold turns, and the call on the second one read none
\* of the first
C3_Witness ==
    /\ \A k \in Keys : TurnsOf(get_messages(history, k)) # <<>>
    /\ \E t \in Tasks :
           /\ pc[t] = "returned"
           /\ before[t] # EmptyHistory
           /\ message_history[t] = <<>>

\* C4: the turns of a conversation stand in the order in which their chat
\* calls completed, and a call that completes leaves its turn last.
C4_Ordering ==
    [][/\ \A k \in Keys :
              LET turns == TurnsOf(get_messages(history', k))
              IN  \A i, j \in 1..Len(turns) :
                      i < j => CompletedBefore(done', turns[i].call, turns[j].call)
       /\ \A t \in Tasks :
              Returns(t, "complete") =>
                  LET turns == TurnsOf(get_messages(history', conversation_id[t]))
                  IN  /\ turns # <<>>
                      /\ turns[Len(turns)].call = call[t]
                      /\ done'[Len(done')] = call[t]]_vars

\* a conversation holds the turns of two calls
C4_Witness ==
    \E k \in Keys : Len(TurnsOf(get_messages(history, k))) >= 2

\* C5: a call that is over without having been cancelled has returned one
\* outcome, "complete" with the response text or "error" with a description,
\* stamped with the time; no failure leaves chat as an exception.
Descriptions == {McpStartError, RunError, StoreWriteError}

C5_OneOutcome ==
    \A t \in Tasks :
        /\ pc[t] # "raised"
        /\ pc[t] = "returned" =>
               /\ response[t].type \in {"complete", "error"}
               /\ response[t].timestamp \in 1..(now - 1)
               /\ response[t].type = "complete" => response[t].data = full_response[t]
               /\ response[t].type = "error" => response[t].data \in Descriptions
        /\ pc[t] \in Suspended \cup {"cancelled"} => response[t] = NoResponse

\* the store failed on the assistant half and chat returned the error outcome
C5_Witness ==
    \E t \in Tasks :
        /\ pc[t] = "returned"
        /\ response[t].type = "error"
        /\ response[t].data = StoreWriteError
        /\ full_response[t] # ""

\* C6: a call that returns "complete" has added exactly one turn, (message,
\* returned text), at the end of its conversation and touched no other.
C6_OneNewTurn ==
    [][\A t \in Tasks :
          Returns(t, "complete") =>
              /\ TurnsOf(get_messages(history', conversation_id[t]))
                     = Append(TurnsOf(get_messages(before[t], conversation_id[t])),
                              [user |-> message[t], assistant |-> response'[t].data,
                               call |-> call[t]])
              /\ \A k \in Keys \ {conversation_id[t]} :
                     get_messages(history', k) = get_messages(before[t], k)]_vars

\* a call on a conversation without turns succeeded: one turn, the message
C6_Witness ==
    \E t \in Tasks :
        /\ pc[t] = "returned"
        /\ response[t].type = "complete"
        /\ TurnsOf(get_messages(before[t], conversation_id[t])) = <<>>
        /\ LET turns == TurnsOf(get_messages(history, conversation_id[t]))
           IN  Len(turns) = 1 /\ turns[1].user = message[t]

\* only whole turns: every entry is one half of a reconstructed turn
WholeTurns(s) == Len(s) = 2 * Len(TurnsOf(s))

\* C7: the history handed to agent.run is what the store holds for that key
\* when the request is issued, and it holds whole turns only.
C7_HistoryIsCurrent ==
    \A t \in Tasks :
        pc[t] = "awaiting" =>
            /\ message_history[t] = persistedAtIssue[t]
            /\ WholeTurns(message_history[t])

\* C8: a chat call that has returned issued exactly one request.
C8_ExactlyOneRequest ==
    \A t \in Tasks : pc[t] = "returned" => runs[t] = 1

\* C8 (amended): a chat call issues at most one request and never repeats
\* it: exactly one once the tool-server context is entered, none when
\* entering it fails; a failure is returned as the error outcome and the
\* call is over.
C8_AtMostOneRequest ==
    \A t \in Tasks :
        /\ runs[t] <= 1
        /\ pc[t] = "entering" => runs[t] = 0
        /\ pc[t] \in {"awaiting", "add_user", "add_assistant"} => runs[t] = 1
        /\ pc[t] = "returned" =>
               (runs[t] = 0 <=> response[t] = Error(McpStartError, response[t].timestamp))
        /\ (pc[t] = "returned" /\ response[t].data = RunError) =>
               (runs[t] = 1 /\ response[t].type = "error")

\* the one request of a call failed and the call is over
C8_Witness ==
    \E t \in Tasks :
        /\ pc[t] = "returned"
        /\ response[t].type = "error"
        /\ response[t].data = RunError
        /\ runs[t] = 1

\* C9: clear_history(x) leaves conversation x without turns and every
\* other conversation as it was; clear_history() leaves no conversation,
\* and get_conversations() is then empty.
C9_ClearSemantics ==
    [][/\ \A x \in Keys :
              ClearHistory(x) =>
                  /\ get_messages(history', x) = <<>>
                  /\ \A k \in Keys \ {x} :
                         get_messages(history', k) = get_messages(history, k)
       /\ ClearHistory(None) =>
              /\ \A k \in Keys : get_messages(history', k) = <<>>
              /\ get_conversations(history') = {}]_vars

\* a conversation whose call completed has been cleared, another one kept
C9_Witness ==
    /\ \E i \in 1..Len(done) : callKey[done[i]] \notin DOMAIN history
    /\ \E k \in Keys : TurnsOf(get_messages(history, k)) # <<>>

\* C10: after a chat call was cancelled, the store holds no entry written
\* by that call, and every conversation holds whole turns only.
C10_CancelDropsTurn ==
    \A t \in Tasks :
        pc[t] = "cancelled" =>
            \A k \in DOMAIN history :
                /\ \A i \in 1..Len(history[k]) : history[k][i].call # call[t]
                /\ WholeTurns(history[k])

\* C11: the two role writes of a turn are never separated by a write of
\* another turn: in every state the entry before an assistant entry of a
\* key is the user entry of the same call.
C11_TurnPairing ==
    \A k \in DOMAIN history :
        \A i \in 2..Len(history[k]) :
            history[k][i].role = "assistant" =>
                /\ history[k][i - 1].role = "user"
                /\ history[k][i - 1].call = history[k][i].call

C13_RefusalAlwaysSucceeds ==
    [][\A t \in Tasks :
          (pc[t] \in Suspended /\ pc'[t] = "returned" /\ full_response[t] = Refusal)
              => (response'[t].type = "complete" /\ response'[t].data = Refusal)]_vars

\* C13 (amended): every request carries AGENT_SYSTEM_PROMPT, whose failure
\* protocol quotes the refusal phrase; the text the completion returns is
\* kept unaltered; a call that received the refusal phrase returns either
\* the success outcome with exactly that phrase or, when persisting the
\* turn failed, the error outcome of the store fault.
C13_RefusalExactness ==
    [][\A t \in Tasks :
          /\ \A data \in Answers : ChatRunOk(t, data) => full_response'[t] = data
          /\ Returns(t, "complete") => response'[t].data = full_response[t]
          /\ (pc[t] \in {"add_user", "add_assistant"} /\ pc'[t] = "returned"
                  /\ full_response[t] = Refusal) =>
                 \/ response'[t].type = "complete" /\ response'[t].data = Refusal
                 \/ response'[t].type = "error" /\ response'[t].data = StoreWriteError
          /\ runs'[t] = 1 =>
                 /\ request'[t].system_prompt = AGENT_SYSTEM_PROMPT
                 /\ request'[t].system_prompt.failure_protocol = Refusal
                 /\ request'[t].message = message'[t]]_vars

\* the completion answered with the refusal phrase and chat returned it
C13_Witness ==
    \E t \in Tasks :
        /\ pc[t] = "returned"
        /\ response[t].type = "complete"
        /\ response[t].data = Refusal
        /\ request[t].system_prompt.failure_protocol = response[t].data

\* C14: a store write that fails is reported.  A failing add_message makes
\* chat return the error outcome of the store fault, and chat returns the
\* success outcome only when both halves of the turn are in the store and
\* on the file; a failing clear leaves the store as it was and is not
\* reported as cleared, and the session loop prints "cleared" only when the
\* current conversation is empty in memory and on the file.
C14_WriteFaultsSurfaced ==
    [][/\ \A t \in Tasks :
              /\ (ChatAddUserFail(t) \/ ChatAddAssistantFail(t)) =>
                     /\ response'[t].type = "error"
                     /\ response'[t].data = StoreWriteError
              /\ Returns(t, "complete") =>
                     LET s == get_messages(history', conversation_id[t])
                     IN  /\ Len(s) >= 2
                         /\ s[Len(s) - 1] = Entry("user", message[t], call[t])
                         /\ s[Len(s)] = Entry("assistant", full_response[t], call[t])
                         /\ Decode(disk') = history'
       /\ \A line \in Lines :
              CliClearFail(line) =>
                  (console' # "cleared" /\ history' = history /\ disk' = disk)
       /\ (cli = "prompt" /\ cli' = "prompt" /\ Dispatch[user_input'] = "clear"
               /\ console' = "cleared") =>
              /\ get_messages(history', current_conversation) = <<>>
              /\ Decode(disk') = history']_vars

\* /clear failed on a conversation that holds turns: the error is shown and
\* the turns are still there
C14_Witness ==
    /\ cli = "prompt"
    /\ Dispatch[user_input] = "clear"
    /\ console = "unexpected error"
    /\ get_messages(history, current_conversation) # <<>>
    /\ nextCall > 1

\* C15: a failing chat call does not end the session loop.  While the loop
\* waits for chat, a call that is over with a failure holds the error
\* outcome and the loop is still running; from there the loop always comes
\* back to the prompt, still running, with the error shown, and every
\* utterance entered then starts a new chat call.
C15_TurnFaultKeepsLoop ==
    /\ [](cli = "chatting" => (running /\ pc[SessionTask] # "raised"))
    /\ (cli = "chatting" /\ pc[SessionTask] = "returned"
            /\ response[SessionTask].type = "error")
           ~> (/\ cli = "prompt"
               /\ running
               /\ console = "error panel"
               /\ nextCall <= MaxCalls =>
                      \A line \in UtteranceLines : ENABLED CliMessage(line))

\* the first call ended with an error outcome and a second call is under way
C15_Witness ==
    /\ cli = "chatting"
    /\ running
    /\ call[SessionTask] = 2
    /\ now = 2
    /\ done = <<>>
    /\ pc[SessionTask] \in Suspended

\* C16: at most one chat call is in flight at any time, it is the call the
\* session loop is waiting for, and while it is in flight the loop is
\* inside process_message: it is not at the prompt, so it reads no line,
\* runs no command and starts no other call.
C16_OneOutstanding ==
    /\ Cardinality({t \in Tasks : pc[t] \in Suspended}) <= 1
    /\ Cardinality({t \in Tasks : pc[t] = "awaiting"}) <= 1
    /\ \A t \in Tasks :
           pc[t] \in Suspended => (t = SessionTask /\ cli = "chatting" /\ running)
    /\ \A t \in Tasks : runs[t] <= 1

\* the request of a later turn is outstanding, the earlier turn is complete
C16_Witness ==
    /\ cli = "chatting"
    /\ pc[SessionTask] = "awaiting"
    /\ runs[SessionTask] = 1
    /\ done # <<>>

\* C17: a chat call that returns yields one outcome whose type is "complete"
\* or "error", "complete" exactly when the call got through its last step
\* (the write of the assistant half) without a failure; process_message
\* has a branch for either type, and what it shows is the answer for
\* "complete" and the error panel for "error", never nothing.
C17_OutcomeIsDisplayed ==
    [][/\ \A t \in Tasks :
              (pc[t] \in Suspended /\ pc'[t] = "returned") =>
                  /\ response'[t].type \in {"complete", "error"}
                  /\ process_message_branch(response'[t]) # "nothing"
                  /\ response'[t].type = "complete" <=>
                         /\ pc[t] = "add_assistant"
                         /\ get_messages(history', conversation_id[t]) # <<>>
                         /\ get_messages(history', conversation_id[t])
                                [Len(get_messages(history', conversation_id[t]))]
                                = Entry("assistant", full_response[t], call[t])
       /\ (cli = "chatting" /\ cli' = "prompt") =>
              /\ console' \in {"markdown", "error panel"}
              /\ console' = "markdown" <=> response[SessionTask].type = "complete"]_vars

\* the answer of a successful call has been rendered
C17_Witness ==
    /\ cli = "prompt"
    /\ console = "markdown"
    /\ user_input \in UtteranceLines
    /\ get_messages(history, current_conversation) # <<>>
    /\ get_messages(history, current_conversation)
           [Len(get_messages(history, current_conversation))]
           = Entry("assistant", "X is Y.", call[SessionTask])

\* what the console shows after a chat, clear_history or get_conversations
\* call of the session loop
AgentCallShown ==
    {"thinking", "markdown", "error panel", "cleared", "unexpected error",
     "table", "no conversation history"}

\* the history is loaded whenever the session loop is running or has called
\* the agent; a process whose initialization failed has called nothing
LoadedFirst ==
    /\ cli \in {"prompt", "chatting"} => loaded
    /\ (\E t \in Tasks : pc[t] # "idle" \/ call[t] # 0) => loaded
    /\ console \in AgentCallShown => loaded
    /\ cli \in {"start", "fatal"} =>
           /\ \A t \in Tasks : pc[t] = "idle" /\ call[t] = 0
           /\ console \notin AgentCallShown

\* C18: in every run of the application the load of the history has
\* completed before the session loop issues its first chat, clear_history
\* or get_conversations call, and a run whose initialization failed issues
\* none: it stays failed until the program is started again.
C18_LoadedBeforeAnyTurn ==
    [][/\ LoadedFirst'
       /\ cli = "fatal" => cli' \in {"fatal", "start"}
       /\ (cli = "start" /\ cli' = "prompt") => (loaded' /\ history' = Decode(disk))]_vars

\* the first chat call of a run reads the turns an earlier run had saved
C18_Witness ==
    /\ loaded
    /\ cli = "chatting"
    /\ nextCall = 2
    /\ call[SessionTask] = 1
    /\ message_history[SessionTask] = EarlierHistory[current_conversation]

\* the line is empty or has whitespace characters only
OnlyWhitespace(line) == \A i \in 1..Len(Chars(line)) : IsSpace(Chars(line)[i])

\* C19: a line that is empty or all whitespace, read at the prompt, starts
\* no chat call, issues no request and leaves the store and its file as
\* they are; every chat call the loop starts carries the line as read,
\* which has a character that is not whitespace, and so does its request.
C19_NoEmptyUtterance ==
    [][/\ (cli = "prompt" /\ running /\ OnlyWhitespace(user_input')) =>
              UNCHANGED <<history, pending, disk, pc, call, nextCall, runs, request,
                          message>>
       /\ \A t \in Tasks :
              /\ (pc[t] # "entering" /\ pc'[t] = "entering") =>
                     /\ ~OnlyWhitespace(message'[t])
                     /\ message'[t] = user_input'
              /\ runs'[t] = 1 => ~OnlyWhitespace(request'[t].message)]_vars

\* after a rendered answer a line of spaces was entered: the loop prompts
\* again, the answer still on the console
C19_Witness ==
    /\ cli = "prompt"
    /\ running
    /\ user_input = "  "
    /\ console = "markdown"
    /\ nextCall = 2

\* the first character of the line is "/"
StartsWithSlash(line) == Len(Chars(line)) >= 1 /\ Chars(line)[1] = "/"

\* C20: a line that starts with "/", read at the prompt, starts no chat
\* call and issues no request; it adds no entry to any conversation; only
\* /clear changes the store, and what it changes is the current
\* conversation, which it empties; every other command leaves the store
\* and its file as they are.
C20_CommandsAreNotUtterances ==
    [][(cli = "prompt" /\ running /\ StartsWithSlash(user_input')) =>
          /\ UNCHANGED <<pc, call, nextCall, runs, request, message>>
          /\ \A k \in Keys \ {current_conversation} :
                 get_messages(history', k) = get_messages(history, k)
          /\ get_messages(history', current_conversation)
                 \in {<<>>, get_messages(history, current_conversation)}
          /\ Cmd(user_input') # Chars("/clear") =>
                 UNCHANGED <<history, pending, disk>>]_vars

\* /clear emptied the current conversation and left the other one alone
C20_Witness ==
    /\ cli = "prompt"
    /\ user_input = "/clear"
    /\ console = "cleared"
    /\ get_messages(history, current_conversation) = <<>>
    /\ get_messages(history, "conv1") = EarlierHistory["conv1"]
    /\ Decode(disk) = history

\* the lines whose first word, in lower case, is "/exit"
ExitLines == {"/exit", "/EXIT"}

\* C21: shutdown is final.  Handling /exit, or an interruption received at
\* the prompt, ends the session loop in that very step (running cleared,
\* nothing called); running is cleared only when the loop has ended; and
\* once the loop has ended the process reads no line, starts no chat call
\* and changes neither the store nor its file: all that can follow is a
\* new start of the program, which finds the file as it was left.
C21_ShutdownIsFinal ==
    [][/\ (cli = "prompt" /\ (user_input' \in ExitLines \/ console' = "shutting down")) =>
              /\ cli' = "stopped"
              /\ ~running'
              /\ UNCHANGED <<history, pending, disk, pc, call, nextCall, runs, request>>
       /\ ~running' => cli' = "stopped"
       /\ cli = "stopped" =>
              /\ cli' \in {"stopped", "start"}
              /\ UNCHANGED <<disk, nextCall, done, now>>
              /\ cli' = "stopped" =>
                     UNCHANGED <<history, pending, pc, call, runs, request, message,
                                 user_input, console, running>>]_vars

\* /EXIT was handled after a turn: the loop has ended, the turn is on file
C21_Witness ==
    /\ cli = "stopped"
    /\ ~running
    /\ user_input = "/EXIT"
    /\ console = "goodbye"
    /\ done # <<>>
    /\ Decode(disk) = history
    /\ get_messages(history, current_conversation) # <<>>
====
